---- MODULE Spec2Model ----
(***************************************************************************)
(* EarlyAllocator<PAGE_SIZE> of arceos/modules/bump_allocator: a double-   *)
(* ended bump allocator.  Bytes are handed out forward from b_pos, pages   *)
(* backward from p_pos, and count is the number of live byte allocations.  *)
(*                                                                         *)
(* usize is modelled as an unsigned integer of BITS bits.  Unchecked usize *)
(* arithmetic (+, -, +=) behaves as the build decides: it panics when the  *)
(* crate is built with overflow checks (debug profile) and wraps modulo    *)
(* 2^BITS otherwise (release profile).  overflow_checks is that build      *)
(* choice; it is fixed in the initial state.  A panic halts the kernel.    *)
(*                                                                         *)
(* alloc builds its result with NonNull::new_unchecked, whose precondition *)
(* is a non-null address.  When the address is 0 the call is undefined     *)
(* behaviour: a build with debug assertions checks the precondition and    *)
(* aborts the process there, after b_pos and count were written; a build   *)
(* without them returns Ok(0).  debug_assertions is that build choice; it  *)
(* is fixed in the initial state, independently of overflow_checks.        *)
(***************************************************************************)
EXTENDS Integers, Naturals, Sequences, FiniteSets, TLC

\* ---------------------------------------------------------------- widths
BITS == 5                       \* usize::BITS, scaled down
PAGE_SIZE == 4                  \* the const generic PAGE_SIZE
MaxUsize == 2^BITS - 1          \* usize::MAX
IsizeMax == 2^(BITS - 1) - 1    \* isize::MAX

\* ---------------------------------------------------------------- bounds
MaxAllocs == 3                  \* successful alloc calls explored per init
MaxSize == 2                    \* largest Layout size requested
MaxPages == 2                   \* largest ordinary page count requested
MaxAlignPow2 == 5               \* largest align_pow2 requested (> BITS - 1)

\* (base, size) pairs given to init: an empty region, whole pages at an
\* aligned and at an unaligned base, regions whose start or end is not page
\* aligned, regions in the upper half of the address space, and one whose
\* end base + size does not fit in usize.
InitArgs == {<<0, 0>>, <<0, 6>>, <<0, 8>>, <<0, 20>>, <<2, 12>>, <<4, 8>>,
             <<17, 13>>, <<28, 3>>, <<24, 8>>}
AddMemoryArgs == {<<0, 8>>, <<16, 4>>}
\* Layout guarantees a power-of-two alignment and a size that, rounded up
\* to the alignment, does not exceed isize::MAX.
Aligns == {2^k : k \in 0..(BITS - 1)}
LayoutValid(size, align) == ((size + align - 1) \div align) * align <= IsizeMax
Layouts == {l \in (0..MaxSize) \X Aligns : LayoutValid(l[1], l[2])}
\* page counts: the ordinary ones and one whose byte size overflows usize
PageCounts == (0..MaxPages) \cup {2^BITS \div PAGE_SIZE}
\* align_pow2 values: 2^0 below the page size, 2^3 above it, and one beyond
\* BITS - 1, which the code clamps
AlignPow2s == {0, 3, MaxAlignPow2}
\* (address, size) pairs given to dealloc, (address, pages) to dealloc_pages
DeallocArgs == {<<1, 0>>, <<20, 3>>}
DeallocPagesArgs == {<<4, 1>>, <<20, 0>>}

\* ------------------------------------------------------- usize arithmetic
max(a, b) == IF a >= b THEN a ELSE b
min(a, b) == IF a <= b THEN a ELSE b
wrap(x) == x % (2^BITS)
saturating_sub(a, b) == IF a >= b THEN a - b ELSE 0

RECURSIVE BitAnd(_, _)
BitAnd(x, y) ==
    IF x = 0 \/ y = 0 THEN 0
    ELSE (x % 2) * (y % 2) + 2 * BitAnd(x \div 2, y \div 2)
BitNot(x) == MaxUsize - x

\* ------------------------------------------------------------ align_up
\* align_up without the rounding mask
align_up_noround(addr, align) == addr

\* (addr + a - 1) & !(a - 1), the additions wrapping as in a release build
align_up(addr, align) ==
    LET a == max(1, align)
    IN  BitAnd(wrap(wrap(addr + a) - 1), BitNot(a - 1))
\* the first unchecked addition addr + a overflows: a panic under checks
align_up_overflows(addr, align) == addr + max(1, align) > MaxUsize

align_down(addr, align) ==
    LET a == max(1, align)
    IN  BitAnd(addr, BitNot(a - 1))

\* the aligned candidate over the unbounded integers: the smallest multiple
\* of max(align, 1) that is >= addr
IdealCandidate(addr, align) ==
    LET a == max(1, align)
    IN  ((addr + a - 1) \div a) * a

\* ----------------------------------------------------------------- state
VARIABLES start, end, b_pos, p_pos, count,   \* the fields of EarlyAllocator
          overflow_checks,                   \* the build's overflow mode
          debug_assertions,                  \* the build's debug assertions
          op, arg1, arg2,                    \* the last call and its arguments
          ret, val,                          \* its outcome and returned address
          h_last, h_allocs, h_deallocs,      \* history (see below)
          h_reinit,                          \* the last call was an init that
                                             \* found live bytes and pages
          live, blocks                       \* ledger (SpecLedger only)

fields == <<start, end, b_pos, p_pos, count>>
vars == <<start, end, b_pos, p_pos, count, overflow_checks, debug_assertions,
          op, arg1, arg2, ret, val, h_last, h_allocs, h_deallocs, h_reinit,
          live, blocks>>
\* live: the byte allocations returned by alloc and not yet freed, as
\* [id, addr, size]; blocks: the page blocks returned by alloc_pages, as
\* [addr, pages].  Both are kept by SpecLedger and stay empty under Spec.
ledger == <<live, blocks>>

Self == [start |-> start, end |-> end, b_pos |-> b_pos, p_pos |-> p_pos,
         count |-> count]

NoAddr == 0 - 1        \* val when the call returns no address
NoAlloc == 0 - 1       \* h_last: no successful alloc since the last init
Reclaimed == 0 - 2     \* h_last: a dealloc has brought count to 0 since

\* ------------------------------------------------------------------- new
new == [start |-> 0, end |-> 0, b_pos |-> 0, p_pos |-> 0, count |-> 0]

\* ------------------------------------------------------------------ init
\* init that keeps the live count
init_keepcount(self, start_vaddr, size, checks) ==
    IF start_vaddr + size > MaxUsize /\ checks
    THEN [self |-> [self EXCEPT !.start = start_vaddr], ret |-> "Panic",
          val |-> NoAddr]
    ELSE [self |-> [start |-> start_vaddr, end |-> wrap(start_vaddr + size),
                    b_pos |-> start_vaddr, p_pos |-> wrap(start_vaddr + size),
                    count |-> self.count],
          ret |-> "None", val |-> NoAddr]

init(self, start_vaddr, size, checks) ==
    IF start_vaddr + size > MaxUsize /\ checks
    THEN \* self.start is assigned, then start_vaddr + size panics
         [self |-> [self EXCEPT !.start = start_vaddr], ret |-> "Panic",
          val |-> NoAddr]
    ELSE [self |-> [start |-> start_vaddr, end |-> wrap(start_vaddr + size),
                    b_pos |-> start_vaddr, p_pos |-> wrap(start_vaddr + size),
                    count |-> 0],
          ret |-> "None", val |-> NoAddr]

\* ------------------------------------------------------------ add_memory
\* add_memory that extends the region
add_memory_extend(self, start_vaddr, size) ==
    [self |-> [self EXCEPT !.end = wrap(self.end + size)], ret |-> "Ok",
     val |-> NoAddr]

add_memory(self, start_vaddr, size) ==
    [self |-> self, ret |-> "Ok", val |-> NoAddr]

\* ----------------------------------------------------------------- alloc
\* alloc that forgets to count the allocation
alloc_nocount(self, lsize, lalign, checks, asserts) ==
    LET size == max(lsize, 1)
        align == max(lalign, 1)
    IN  IF checks /\ align_up_overflows(self.b_pos, align)
        THEN [self |-> self, ret |-> "Panic", val |-> NoAddr]
        ELSE LET start_ == align_up(self.b_pos, align)
                 end_ == start_ + size
             IN  IF end_ > MaxUsize
                 THEN [self |-> self, ret |-> "NoMemory", val |-> NoAddr]
                 ELSE IF end_ > self.p_pos
                 THEN [self |-> self, ret |-> "NoMemory", val |-> NoAddr]
                 ELSE IF asserts /\ start_ = 0
                 THEN [self |-> [self EXCEPT !.b_pos = end_],
                       ret |-> "Abort", val |-> NoAddr]
                 ELSE [self |-> [self EXCEPT !.b_pos = end_],
                       ret |-> "Ok", val |-> start_]

alloc(self, lsize, lalign, checks, asserts) ==
    LET size == max(lsize, 1)
        align == max(lalign, 1)
    IN  IF checks /\ align_up_overflows(self.b_pos, align)
        THEN [self |-> self, ret |-> "Panic", val |-> NoAddr]
        ELSE LET start_ == align_up(self.b_pos, align)
                 end_ == start_ + size
             IN  IF end_ > MaxUsize           \* checked_add fails
                 THEN [self |-> self, ret |-> "NoMemory", val |-> NoAddr]
                 ELSE IF end_ > self.p_pos
                 THEN [self |-> self, ret |-> "NoMemory", val |-> NoAddr]
                 ELSE IF checks /\ self.count + 1 > MaxUsize
                 THEN [self |-> [self EXCEPT !.b_pos = end_],  \* count += 1
                       ret |-> "Panic", val |-> NoAddr]        \* panics
                 ELSE IF asserts /\ start_ = 0  \* new_unchecked(0) aborts
                 THEN [self |-> [self EXCEPT !.b_pos = end_,
                                             !.count = wrap(self.count + 1)],
                       ret |-> "Abort", val |-> NoAddr]
                 ELSE [self |-> [self EXCEPT !.b_pos = end_,
                                             !.count = wrap(self.count + 1)],
                       ret |-> "Ok", val |-> start_]

\* --------------------------------------------------------------- dealloc
\* dealloc that never reclaims the byte area
dealloc_noreset(self) ==
    LET c == IF self.count > 0 THEN self.count - 1 ELSE self.count
    IN  [self |-> [self EXCEPT !.count = c], ret |-> "None", val |-> NoAddr]

\* dealloc that reclaims the byte area on every call
dealloc_eager(self) ==
    LET c == IF self.count > 0 THEN self.count - 1 ELSE self.count
    IN  [self |-> [self EXCEPT !.count = c, !.b_pos = self.start],
         ret |-> "None", val |-> NoAddr]

dealloc(self) ==
    LET c == IF self.count > 0 THEN self.count - 1 ELSE self.count
    IN  [self |-> [self EXCEPT !.count = c,
                               !.b_pos = IF c = 0 THEN self.start
                                         ELSE self.b_pos],
         ret |-> "None", val |-> NoAddr]

\* ----------------------------------------------------------- alloc_pages
\* alloc_pages that measures every block from the end of the region
alloc_pages_fromend(self, num_pages, align_pow2) ==
    IF num_pages = 0
    THEN [self |-> self, ret |-> "InvalidParam", val |-> NoAddr]
    ELSE IF num_pages * PAGE_SIZE > MaxUsize
    THEN [self |-> self, ret |-> "NoMemory", val |-> NoAddr]
    ELSE LET size == num_pages * PAGE_SIZE
             align == max(PAGE_SIZE, 2^min(BITS - 1, align_pow2))
             end_ == align_down(self.end, align)
         IN  IF end_ < size
             THEN [self |-> self, ret |-> "NoMemory", val |-> NoAddr]
             ELSE IF end_ - size < self.b_pos
             THEN [self |-> self, ret |-> "NoMemory", val |-> NoAddr]
             ELSE [self |-> [self EXCEPT !.p_pos = end_ - size],
                   ret |-> "Ok", val |-> end_ - size]

\* alloc_pages that refuses a block starting exactly at b_pos
alloc_pages_strict(self, num_pages, align_pow2) ==
    IF num_pages = 0
    THEN [self |-> self, ret |-> "InvalidParam", val |-> NoAddr]
    ELSE IF num_pages * PAGE_SIZE > MaxUsize
    THEN [self |-> self, ret |-> "NoMemory", val |-> NoAddr]
    ELSE LET size == num_pages * PAGE_SIZE
             align == max(PAGE_SIZE, 2^min(BITS - 1, align_pow2))
             end_ == align_down(self.p_pos, align)
         IN  IF end_ < size
             THEN [self |-> self, ret |-> "NoMemory", val |-> NoAddr]
             ELSE IF end_ - size <= self.b_pos
             THEN [self |-> self, ret |-> "NoMemory", val |-> NoAddr]
             ELSE [self |-> [self EXCEPT !.p_pos = end_ - size],
                   ret |-> "Ok", val |-> end_ - size]

\* alloc_pages without the zero-page check
alloc_pages_nozero(self, num_pages, align_pow2) ==
    IF num_pages * PAGE_SIZE > MaxUsize
    THEN [self |-> self, ret |-> "NoMemory", val |-> NoAddr]
    ELSE LET size == num_pages * PAGE_SIZE
             align == max(PAGE_SIZE, 2^min(BITS - 1, align_pow2))
             end_ == align_down(self.p_pos, align)
         IN  IF end_ < size
             THEN [self |-> self, ret |-> "NoMemory", val |-> NoAddr]
             ELSE IF end_ - size < self.b_pos
             THEN [self |-> self, ret |-> "NoMemory", val |-> NoAddr]
             ELSE [self |-> [self EXCEPT !.p_pos = end_ - size],
                   ret |-> "Ok", val |-> end_ - size]

alloc_pages(self, num_pages, align_pow2) ==
    IF num_pages = 0
    THEN [self |-> self, ret |-> "InvalidParam", val |-> NoAddr]
    ELSE IF num_pages * PAGE_SIZE > MaxUsize          \* checked_mul fails
    THEN [self |-> self, ret |-> "NoMemory", val |-> NoAddr]
    ELSE LET size == num_pages * PAGE_SIZE
             align == max(PAGE_SIZE, 2^min(BITS - 1, align_pow2))
             end_ == align_down(self.p_pos, align)
         IN  IF end_ < size                           \* checked_sub fails
             THEN [self |-> self, ret |-> "NoMemory", val |-> NoAddr]
             ELSE IF end_ - size < self.b_pos
             THEN [self |-> self, ret |-> "NoMemory", val |-> NoAddr]
             ELSE [self |-> [self EXCEPT !.p_pos = end_ - size],
                   ret |-> "Ok", val |-> end_ - size]

\* --------------------------------------------------------- dealloc_pages
\* dealloc_pages that hands the lowest block back
dealloc_pages_release(self, pos, num_pages) ==
    [self |-> [self EXCEPT !.p_pos = IF pos = self.p_pos
                                     THEN min(self.end,
                                              self.p_pos + num_pages * PAGE_SIZE)
                                     ELSE self.p_pos],
     ret |-> "None", val |-> NoAddr]

dealloc_pages(self, pos, num_pages) ==
    [self |-> self, ret |-> "None", val |-> NoAddr]

\* ------------------------------------------------------------ accounting
total_bytes(self) == saturating_sub(self.end, self.start)
used_bytes(self) == saturating_sub(self.b_pos, self.start)
available_bytes(self) == saturating_sub(self.p_pos, self.b_pos)
total_pages(self) == saturating_sub(self.end, self.start) \div PAGE_SIZE
used_pages(self) == saturating_sub(self.end, self.p_pos) \div PAGE_SIZE
available_pages(self) == saturating_sub(self.p_pos, self.b_pos) \div PAGE_SIZE

\* --------------------------------------------------------------- actions
Commit(r, name, a1, a2) ==
    /\ start' = r.self.start
    /\ end' = r.self.end
    /\ b_pos' = r.self.b_pos
    /\ p_pos' = r.self.p_pos
    /\ count' = r.self.count
    /\ op' = name
    /\ arg1' = a1
    /\ arg2' = a2
    /\ ret' = r.ret
    /\ val' = r.val
    /\ UNCHANGED <<overflow_checks, debug_assertions>>

\* a panic or an abort ends the run: no later call is made
Running == ret \notin {"Panic", "Abort"}

Init ==
    /\ start = new.start
    /\ end = new.end
    /\ b_pos = new.b_pos
    /\ p_pos = new.p_pos
    /\ count = new.count
    /\ overflow_checks \in BOOLEAN
    /\ debug_assertions \in BOOLEAN
    /\ op = "new"
    /\ arg1 = 0
    /\ arg2 = 0
    /\ ret = "None"
    /\ val = NoAddr
    /\ h_last = NoAlloc
    /\ h_allocs = 0
    /\ h_deallocs = 0
    /\ h_reinit = FALSE
    /\ live = {}
    /\ blocks = {}

InitWith(i) ==
    /\ Running
    /\ Commit(init(Self, i[1], i[2], overflow_checks), "init", i[1], i[2])
    /\ h_last' = NoAlloc
    /\ h_allocs' = 0
    /\ h_deallocs' = 0
    /\ h_reinit' = (count > 0 /\ p_pos < end)
    /\ live' = {}
    /\ blocks' = {}

InitCall == \E i \in InitArgs : InitWith(i)

\* init restricted to regions whose end base + size fits in usize
InitCallFits ==
    \E i \in {j \in InitArgs : j[1] + j[2] <= MaxUsize} : InitWith(i)

AddMemory ==
    \E m \in AddMemoryArgs :
        /\ Running
        /\ Commit(add_memory(Self, m[1], m[2]), "add_memory", m[1], m[2])
        /\ UNCHANGED <<h_last, h_allocs, h_deallocs, live, blocks>>
        /\ h_reinit' = FALSE

AllocWith(l) ==
    LET r == alloc(Self, l[1], l[2], overflow_checks, debug_assertions)
    IN  /\ Running
        /\ h_allocs < MaxAllocs
        /\ Commit(r, "alloc", l[1], l[2])
        /\ h_last' = IF r.ret = "Ok" THEN r.val ELSE h_last
        /\ h_allocs' = IF r.ret = "Ok" THEN h_allocs + 1 ELSE h_allocs
        /\ h_deallocs' = IF r.ret = "Ok" THEN 0 ELSE h_deallocs
        /\ h_reinit' = FALSE

Alloc ==
    \E l \in Layouts :
        /\ AllocWith(l)
        /\ UNCHANGED <<live, blocks>>

DeallocWith(d) ==
    LET r == dealloc(Self)
    IN  /\ Running
        /\ Commit(r, "dealloc", d[1], d[2])
        /\ h_last' = IF count > 0 /\ r.self.count = 0 THEN Reclaimed
                     ELSE h_last
        /\ h_deallocs' = min(h_deallocs + 1, MaxAllocs + 1)
        /\ UNCHANGED h_allocs
        /\ h_reinit' = FALSE

Dealloc ==
    \E d \in DeallocArgs :
        /\ DeallocWith(d)
        /\ UNCHANGED <<live, blocks>>

AllocPagesWith(n, a) ==
    /\ Running
    /\ Commit(alloc_pages(Self, n, a), "alloc_pages", n, a)
    /\ UNCHANGED <<h_last, h_allocs, h_deallocs>>
    /\ h_reinit' = FALSE

AllocPages ==
    \E n \in PageCounts, a \in AlignPow2s :
        /\ AllocPagesWith(n, a)
        /\ UNCHANGED <<live, blocks>>

DeallocPages ==
    \E d \in DeallocPagesArgs :
        /\ Running
        /\ Commit(dealloc_pages(Self, d[1], d[2]), "dealloc_pages", d[1], d[2])
        /\ UNCHANGED <<h_last, h_allocs, h_deallocs, live, blocks>>
        /\ h_reinit' = FALSE

Next ==
    \/ InitCall
    \/ AddMemory
    \/ Alloc
    \/ Dealloc
    \/ AllocPages
    \/ DeallocPages

Spec == Init /\ [][Next]_vars

NextFits ==
    \/ InitCallFits
    \/ AddMemory
    \/ Alloc
    \/ Dealloc
    \/ AllocPages
    \/ DeallocPages

SpecFits == Init /\ [][NextFits]_vars

\* ---------------------------------------------------------------- ledger
\* Disciplined use: the caller records what alloc and alloc_pages return and
\* passes to dealloc only an allocation that is still live.
LedgerAlloc ==
    \E l \in Layouts :
        /\ AllocWith(l)
        /\ live' = IF ret' = "Ok"
                   THEN live \cup {[id |-> h_allocs', addr |-> val',
                                     size |-> l[1]]}
                   ELSE live
        /\ UNCHANGED blocks

LedgerDealloc ==
    \E e \in live :
        /\ DeallocWith(<<e.addr, e.size>>)
        /\ live' = live \ {e}
        /\ UNCHANGED blocks

LedgerAllocPages ==
    \E n \in PageCounts, a \in AlignPow2s :
        /\ AllocPagesWith(n, a)
        /\ blocks' = IF ret' = "Ok"
                     THEN blocks \cup {[addr |-> val', pages |-> n]}
                     ELSE blocks
        /\ UNCHANGED live

\* init of the regions followed with a ledger: whole pages at an aligned
\* base, and an unaligned region in the upper half of the address space
LedgerInitArgs == {<<4, 8>>, <<17, 7>>}
LedgerInitCall == \E i \in LedgerInitArgs : InitWith(i)

NextLedger ==
    \/ LedgerInitCall
    \/ AddMemory
    \/ LedgerAlloc
    \/ LedgerDealloc
    \/ LedgerAllocPages
    \/ DeallocPages

SpecLedger == Init /\ [][NextLedger]_vars

TypeOK ==
    /\ start \in 0..MaxUsize
    /\ end \in 0..MaxUsize
    /\ b_pos \in 0..MaxUsize
    /\ p_pos \in 0..MaxUsize
    /\ count \in 0..MaxAllocs

\* ================================================================ claims
Errors == {"NoMemory", "InvalidParam"}

\* C1: in every state reachable from new() by init (base + size not
\* overflowing), alloc, dealloc, alloc_pages, dealloc_pages and add_memory,
\* start <= b_pos <= p_pos <= end.  Checked under SpecFits.
C1_CursorsOrdered ==
    Running => (start <= b_pos /\ b_pos <= p_pos /\ p_pos <= end)

\* C2: an alloc or alloc_pages call that would make b_pos exceed p_pos (the
\* aligned candidate plus the size lies beyond p_pos, or the page block would
\* start below b_pos) returns NoMemory, and every such call that returns an
\* error leaves start, end, b_pos, p_pos and count unchanged.
C2_WouldOverrun ==
    \/ /\ op' = "alloc"
       /\ IdealCandidate(b_pos, arg2') + max(arg1', 1) > p_pos
    \/ /\ op' = "alloc_pages"
       /\ arg1' >= 1
       /\ align_down(p_pos, max(PAGE_SIZE, 2^min(BITS - 1, arg2')))
             - arg1' * PAGE_SIZE < b_pos
C2_OverrunIsNoMemory ==
    [][(op' \in {"alloc", "alloc_pages"}) =>
          /\ (C2_WouldOverrun => ret' = "NoMemory")
          /\ (ret' \in Errors => UNCHANGED fields)]_vars

\* C3: the address returned by a successful alloc_pages(n, a) is a multiple
\* of max(PAGE_SIZE, 2^a) and of PAGE_SIZE, for all n >= 1 and all a.
C3_PageBlockAligned ==
    (op = "alloc_pages" /\ ret = "Ok") =>
        /\ val % max(PAGE_SIZE, 2^arg2) = 0
        /\ val % PAGE_SIZE = 0

\* C4: in every reachable state after init,
\* available_bytes() + used_bytes() + used_pages() * PAGE_SIZE == total_bytes().
C4_RegionPartitioned ==
    Running =>
        available_bytes(Self) + used_bytes(Self) + used_pages(Self) * PAGE_SIZE
            = total_bytes(Self)

\* C5: addresses returned by successive successful alloc calls are
\* non-decreasing while count has not dropped to 0 in between, and after a
\* dealloc has brought count to 0 the next successful alloc returns start.
C5_MonotoneThenStart ==
    [][(op' = "alloc" /\ ret' = "Ok") =>
          /\ (h_last >= 0 => val' >= h_last)
          /\ (h_last = Reclaimed => val' = start)]_vars

\* C6: the address returned by a successful alloc(size, align) is a multiple
\* of align, and the block ends at or below p_pos as it was at the moment of
\* the allocation: address + max(size, 1) <= p_pos.
C6_AllocAlignedAndFits ==
    [][(op' = "alloc" /\ ret' = "Ok") =>
          /\ val' % arg2' = 0
          /\ val' + max(arg1', 1) <= p_pos]_vars
\* an alloc that had to round an unaligned b_pos (2) up to the alignment (8)
C6_Witness ==
    op = "alloc" /\ ret = "Ok" /\ arg2 = 8 /\ val = 8 /\ start = 2

\* C7: once k alloc calls have succeeded since init and dealloc has then been
\* called k times, used_bytes() is 0; further dealloc calls leave count at 0
\* and b_pos at start.  (h_allocs: successful allocs since init; h_deallocs:
\* dealloc calls since the last successful alloc.)
C7_DeallocAllReclaims ==
    (Running /\ h_deallocs >= h_allocs) =>
        (used_bytes(Self) = 0 /\ count = 0 /\ b_pos = start)
\* two or more allocations freed by exactly as many deallocs
C7_Witness ==
    op = "dealloc" /\ h_allocs >= 2 /\ h_deallocs = h_allocs

\* C8: a dealloc called while count > 1 only decrements count: b_pos, and
\* with it used_bytes() and available_bytes(), stay as they were; and no
\* dealloc changes p_pos, start or end.
C8_DeallocFrame ==
    [][(op' = "dealloc") =>
          /\ (p_pos' = p_pos /\ start' = start /\ end' = end)
          /\ (count > 1 =>
                /\ count' = count - 1
                /\ b_pos' = b_pos
                /\ used_bytes(Self') = used_bytes(Self)
                /\ available_bytes(Self') = available_bytes(Self))]_vars
\* a dealloc that left an allocation live and the byte region in use
C8_Witness ==
    op = "dealloc" /\ count >= 1 /\ b_pos > start /\ h_deallocs >= 1

\* C9: every address returned by a successful alloc satisfies
\* start <= address < p_pos in the state at the moment of the allocation.
C9_AllocInsideRegion ==
    [][(op' = "alloc" /\ ret' = "Ok") =>
          (start <= val' /\ val' < p_pos)]_vars

\* C10: alloc never panics or aborts and never returns a wrapped address: a
\* call whose aligned candidate, or candidate + size, exceeds usize::MAX
\* returns NoMemory with the state unchanged.
C10_AllocOverflowIsNoMemory ==
    [][(op' = "alloc") =>
          /\ ret' \notin {"Panic", "Abort"}
          /\ (IdealCandidate(b_pos, arg2') + max(arg1', 1) > MaxUsize =>
                (ret' = "NoMemory" /\ UNCHANGED fields))
          /\ (ret' = "Ok" => val' = IdealCandidate(b_pos, arg2'))]_vars

\* C11: alloc_pages(0, a) returns InvalidParam for every a and in every
\* state and leaves the allocator unchanged; no other request of any
\* operation returns InvalidParam.
C11_ZeroPagesInvalidParam ==
    [][/\ ((op' = "alloc_pages" /\ arg1' = 0) =>
              (ret' = "InvalidParam" /\ UNCHANGED fields))
       /\ (ret' = "InvalidParam" => (op' = "alloc_pages" /\ arg1' = 0))]_vars
\* a zero-page request refused although two pages are free
C11_Witness ==
    /\ op = "alloc_pages" /\ arg1 = 0 /\ ret = "InvalidParam"
    /\ available_bytes(Self) >= 2 * PAGE_SIZE

\* C12: dealloc_pages changes no field, and no operation other than init
\* ever raises p_pos or lowers used_pages().
C12_PagesPermanent ==
    [][/\ (op' = "dealloc_pages" => UNCHANGED fields)
       /\ (op' # "init" =>
              (p_pos' <= p_pos /\ used_pages(Self') >= used_pages(Self)))]_vars
\* dealloc_pages called on the block that alloc_pages handed out last
C12_Witness ==
    op = "dealloc_pages" /\ arg1 = p_pos /\ arg2 >= 1 /\ p_pos < end

\* C13: add_memory returns success for every argument pair in every state
\* and changes no field, so total_bytes() and available_bytes() do not grow.
C13_AddMemoryNoOp ==
    [][(op' = "add_memory") =>
          /\ ret' = "Ok"
          /\ UNCHANGED fields
          /\ total_bytes(Self') = total_bytes(Self)
          /\ available_bytes(Self') = available_bytes(Self)]_vars
\* add_memory called on a region with live bytes and pages handed out
C13_Witness ==
    op = "add_memory" /\ ret = "Ok" /\ count > 0 /\ p_pos < end

\* C14: init(base, size) called in any state yields exactly start = base,
\* end = base + size, b_pos = base, p_pos = base + size and count = 0, so
\* that used_bytes() = 0, used_pages() = 0 and available_bytes() = size.
C14_InitResetsAll ==
    [][(op' = "init") =>
          /\ start' = arg1'
          /\ end' = arg1' + arg2'
          /\ b_pos' = arg1'
          /\ p_pos' = arg1' + arg2'
          /\ count' = 0
          /\ used_bytes(Self') = 0
          /\ used_pages(Self') = 0
          /\ available_bytes(Self') = arg2']_vars
\* C14 as amended: the same for every init(base, size) whose end base + size
\* does not exceed usize::MAX.
C14_InitResetsAllThatFits ==
    [][(op' = "init" /\ arg1' + arg2' <= MaxUsize) =>
          /\ start' = arg1'
          /\ end' = arg1' + arg2'
          /\ b_pos' = arg1'
          /\ p_pos' = arg1' + arg2'
          /\ count' = 0
          /\ used_bytes(Self') = 0
          /\ used_pages(Self') = 0
          /\ available_bytes(Self') = arg2']_vars
\* an init, of a region that fits, over live byte allocations and pages
C14_Witness ==
    op = "init" /\ h_reinit /\ arg1 + arg2 <= MaxUsize /\ arg2 > 0

\* C15: after init with size = k * PAGE_SIZE and no byte allocations, k
\* consecutive alloc_pages(1, 0) calls succeed, the i-th returning
\* end - i * PAGE_SIZE, and call k + 1 fails with NoMemory.  The state after
\* j such calls is p_pos = end - j * PAGE_SIZE with b_pos = start, so the
\* claim is stated on the call made in that state (j = 0: right after init).
C15_Size == wrap(end - start)
C15_AfterJCalls(j) ==
    /\ h_allocs = 0
    /\ C15_Size % PAGE_SIZE = 0
    /\ j \in 0..(C15_Size \div PAGE_SIZE)
    /\ p_pos = end - j * PAGE_SIZE
C15_NextCall(j) ==
    IF j < C15_Size \div PAGE_SIZE
    THEN ret' = "Ok" /\ val' = end - (j + 1) * PAGE_SIZE
    ELSE ret' = "NoMemory"
C15_PageRun ==
    [][(op' = "alloc_pages" /\ arg1' = 1 /\ arg2' = 0) =>
          \A j \in 0..(2^BITS \div PAGE_SIZE) :
              C15_AfterJCalls(j) => C15_NextCall(j)]_vars
\* C15 as amended: the same when base is a multiple of PAGE_SIZE and
\* base + size does not exceed usize::MAX.
C15_PageRunAligned ==
    [][(op' = "alloc_pages" /\ arg1' = 1 /\ arg2' = 0
            /\ start % PAGE_SIZE = 0 /\ start <= end) =>
          \A j \in 0..(2^BITS \div PAGE_SIZE) :
              C15_AfterJCalls(j) => C15_NextCall(j)]_vars
\* call k + 1 refused: a region of two or more whole pages at a non-zero
\* aligned base, all of it handed out page by page, no byte allocated
C15_Witness ==
    /\ op = "alloc_pages" /\ arg1 = 1 /\ arg2 = 0 /\ ret = "NoMemory"
    /\ h_allocs = 0 /\ p_pos = start /\ start > 0
    /\ start % PAGE_SIZE = 0 /\ end - start >= 2 * PAGE_SIZE
    /\ (end - start) % PAGE_SIZE = 0

\* C16: whenever the two cursors have met (p_pos = b_pos), every
\* alloc(size, align), size 0 included, fails with NoMemory, and so does
\* every alloc_pages(n, a) with n >= 1.
C16_MetCursorsRefuseAll ==
    [][(b_pos = p_pos) =>
          /\ (op' = "alloc" => ret' = "NoMemory")
          /\ ((op' = "alloc_pages" /\ arg1' >= 1) => ret' = "NoMemory")]_vars

\* C17: alloc(size, align) succeeds exactly when candidate + max(size, 1) <=
\* p_pos, candidate being the smallest multiple of max(align, 1) that is >=
\* b_pos; on success it returns candidate, sets b_pos = candidate +
\* max(size, 1), adds exactly 1 to count and leaves start, end and p_pos.
C17_AllocExact ==
    [][(op' = "alloc") =>
          LET candidate == IdealCandidate(b_pos, arg2')
              size == max(arg1', 1)
          IN  /\ (ret' = "Ok") <=> (candidate + size <= p_pos)
              /\ (ret' = "Ok" =>
                    /\ val' = candidate
                    /\ b_pos' = candidate + size
                    /\ count' = count + 1
                    /\ UNCHANGED <<start, end, p_pos>>)]_vars

\* C18: alloc_pages(n, a) with n >= 1 computes block = align_down(p_pos,
\* max(PAGE_SIZE, 2^min(a, BITS - 1))) - n * PAGE_SIZE; it fails with
\* NoMemory if n * PAGE_SIZE overflows, if the subtraction underflows or if
\* block < b_pos; otherwise it sets p_pos = block, returns block and leaves
\* start, end, b_pos and count unchanged.
C18_AllocPagesExact ==
    [][(op' = "alloc_pages" /\ arg1' >= 1) =>
          LET size == arg1' * PAGE_SIZE
              block == align_down(p_pos,
                                  max(PAGE_SIZE, 2^min(arg2', BITS - 1))) - size
          IN  IF size > MaxUsize \/ block < 0 \/ block < b_pos
              THEN ret' = "NoMemory" /\ UNCHANGED fields
              ELSE /\ ret' = "Ok"
                   /\ val' = block
                   /\ p_pos' = block
                   /\ UNCHANGED <<start, end, b_pos, count>>]_vars
\* a block taken with a clamped alignment that starts exactly at b_pos,
\* above live byte allocations
C18_Witness ==
    /\ op = "alloc_pages" /\ ret = "Ok" /\ arg2 = MaxAlignPow2
    /\ val = b_pos /\ b_pos > start

\* C19: in every reachable state count = 0 implies b_pos = start, that is
\* used_bytes() = 0: whenever used_bytes() > 0 a byte allocation is counted
\* as live.
C19_ZeroCountMeansReclaimed ==
    (Running /\ count = 0) => (b_pos = start /\ used_bytes(Self) = 0)
\* count back at 0 after allocations, with more deallocs than allocs
C19_Witness ==
    /\ op = "dealloc" /\ count = 0 /\ h_last = Reclaimed
    /\ h_deallocs > h_allocs /\ p_pos < end

\* C20: under disciplined use between two init calls the ranges
\* [addr, addr + size) of the live byte allocations are pairwise disjoint,
\* every page block [p, p + n * PAGE_SIZE) lies inside [start, end), page
\* blocks are pairwise disjoint, and no live byte allocation overlaps a page
\* block.  Checked under SpecLedger.
C20_Overlap(a1, s1, a2, s2) == max(a1, a2) < min(a1 + s1, a2 + s2)
C20_LedgerDisjoint ==
    Running =>
        /\ \A x \in live, y \in live :
              x # y => ~C20_Overlap(x.addr, x.size, y.addr, y.size)
        /\ \A b \in blocks :
              start <= b.addr /\ b.addr + b.pages * PAGE_SIZE <= end
        /\ \A b \in blocks, c \in blocks :
              b # c => ~C20_Overlap(b.addr, b.pages * PAGE_SIZE,
                                    c.addr, c.pages * PAGE_SIZE)
        /\ \A x \in live, b \in blocks :
              ~C20_Overlap(x.addr, x.size, b.addr, b.pages * PAGE_SIZE)
====
